---- MODULE Spec2Model ----
(***************************************************************************)
(* Model of app.py: a Flask application with three request handlers        *)
(* (/synthesize, /transcribe, /transcribe-audio) that share one lazily     *)
(* created Whisper model handle and one filesystem.  Every request runs on *)
(* its own thread (Flask's development server is threaded), so the steps   *)
(* of different requests interleave wherever a handler calls out.          *)
(*                                                                         *)
(* Strings are sequences of tokens (one token stands for one or more       *)
(* characters); a form or a multipart body is a function from the field    *)
(* names it carries to their values, so a missing field is a name outside  *)
(* the DOMAIN.                                                             *)
(***************************************************************************)
EXTENDS Integers, Sequences, FiniteSets, TLC

\* Number of request threads the server runs side by side (one request each).
NumThreads == 2

Threads == 1 .. NumThreads

\* Python's None for the model handle; handles are numbered from 1.
None == 0

VARIABLES
    whisper_model,   \* the global of app.py:34 (None or a handle)
    loadCount,       \* how many times whisper.load_model has been executed
    fs,              \* the files that exist, as a set of paths
    uuidCount,       \* how many uuid4() values have been drawn
    pc,              \* per thread: the handler's position
    req,             \* per thread: the request it serves
    loc,             \* per thread: the handler's local variables
    resp             \* per thread: the response sent

vars == <<whisper_model, loadCount, fs, uuidCount, pc, req, loc, resp>>

----------------------------------------------------------------------------
\* Paths and names

\* posixpath.join for two parts.
PathJoin(a, b) ==
    IF b # <<>> /\ b[1] = "/" THEN b
    ELSE IF a = <<>> \/ a[Len(a)] = "/" THEN a \o b
    ELSE a \o <<"/">> \o b

AUDIO_FOLDER == PathJoin(<<"static">>, <<"audio">>)

UPLOAD_FOLDER == PathJoin(<<"static">>, <<"uploads">>)

\* The application directory, where recording.m4a is looked for.
APP_DIR == <<"/", "app">>

\* The fixed recording that /transcribe-audio reads (lines 149-156).
audio_filename == <<"recording.m4a">>

Recording == PathJoin(APP_DIR, audio_filename)

UuidDigits == <<"1", "2", "3", "4", "5", "6", "7", "8", "9">>

\* str(uuid.uuid4()): the n-th value drawn; distinct draws give distinct strings.
UuidStr(n) == <<"uuid-", UuidDigits[n]>>

\* A path names a file directly inside folder.
InFolder(path, folder) ==
    /\ Len(path) > Len(folder) + 1
    /\ SubSeq(path, 1, Len(folder)) = folder
    /\ path[Len(folder) + 1] = "/"
    /\ \A i \in (Len(folder) + 2) .. Len(path) : path[i] # "/"

AudioDir == {p \in fs : InFolder(p, AUDIO_FOLDER)}

UploadDir == {p \in fs : InFolder(p, UPLOAD_FOLDER)}

\* The directory part of a path (everything before the last separator).
RECURSIVE DirName(_)
DirName(path) ==
    IF path = <<>> THEN <<>>
    ELSE IF path[Len(path)] = "/" THEN SubSeq(path, 1, Len(path) - 1)
    ELSE DirName(SubSeq(path, 1, Len(path) - 1))

\* The directories that exist: the two made at startup and the application's.
ExistingDirs == {AUDIO_FOLDER, UPLOAD_FOLDER, APP_DIR}

----------------------------------------------------------------------------
\* Request inputs

Digits == {"1", "5"}

\* float(s) for a string of the tokens used here: digits with at most one dot
\* and at least one digit; anything else raises ValueError.
FloatAccepts(s) ==
    /\ s # <<>>
    /\ \A i \in 1 .. Len(s) : s[i] \in Digits \cup {"."}
    /\ Cardinality({i \in 1 .. Len(s) : s[i] = "."}) <= 1
    /\ \E i \in 1 .. Len(s) : s[i] \in Digits

NoFields == [k \in {} |-> <<>>]

Hi == <<"h", "i">>

\* Form bodies sent to /synthesize.
SynForms ==
    { NoFields,
      [text |-> <<>>],
      [text |-> <<>>, rate |-> <<"x">>],
      [text |-> Hi],
      [text |-> Hi, rate |-> <<"1", ".", "5">>],
      [text |-> Hi, rate |-> <<"x">>],
      [text |-> Hi, pitch |-> <<>>] }

\* Multipart bodies sent to /transcribe: the filename of each file part.
TrFiles ==
    { NoFields,
      [audio |-> <<>>],
      [audio |-> <<"a", ".wav">>],
      [audio |-> <<"a", "/", "b">>] }

Requests ==
    [route : {"synthesize"}, form : SynForms, files : {NoFields}]
    \cup [route : {"transcribe"}, form : {NoFields}, files : TrFiles]
    \cup [route : {"transcribe-audio"}, form : {NoFields}, files : {NoFields}]

NoRequest == [route |-> "none", form |-> NoFields, files |-> NoFields]

\* request.form.get(key, default) as the handler uses it: is the field there.
Has(fields, key) == key \in DOMAIN fields

----------------------------------------------------------------------------
\* Locals and responses

NoLocals ==
    [ client   |-> FALSE,     \* the TextToSpeechClient has been constructed
      calls    |-> 0,         \* provider synthesize_speech invocations
      filename |-> <<>>,
      filepath |-> <<>>,
      model    |-> None,      \* the local `model` of the transcribe handlers
      loaded   |-> None,      \* the value load_model returned, not yet stored
      infers   |-> 0,         \* model.transcribe invocations
      exc      |-> "",        \* the exception raised in the handler, if any
      created  |-> {},        \* the paths this request created
      logged   |-> {} ]       \* the logger.error lines of this request

NoResponse == [status |-> 0, kind |-> "none", body |-> NoFields]

Json(status, body) == [status |-> status, kind |-> "json", body |-> body]

Html(status, body) == [status |-> status, kind |-> "html", body |-> body]

\* Flask's answer to an exception that leaves a view function.
Uncaught == Html(500, NoFields)

Init ==
    /\ whisper_model = None
    /\ loadCount = 0
    /\ fs \in {{}, {Recording}}     \* recording.m4a may or may not have been placed
    /\ uuidCount = 0
    /\ pc = [t \in Threads |-> "idle"]
    /\ req = [t \in Threads |-> NoRequest]
    /\ loc = [t \in Threads |-> NoLocals]
    /\ resp = [t \in Threads |-> NoResponse]

\* A request arrives and is dispatched to its view function.
Start(t) ==
    /\ pc[t] = "idle"
    /\ \E r \in Requests :
        /\ req' = [req EXCEPT ![t] = r]
        /\ pc' = [pc EXCEPT ![t] =
                    CASE r.route = "synthesize" -> "syn_validate"
                      [] r.route = "transcribe" -> "tr_validate"
                      [] OTHER -> "ta_exists"]
    /\ UNCHANGED <<whisper_model, loadCount, fs, uuidCount, loc, resp>>

\* The handler is finished once it has returned (or an exception has left it).
Finish(t, l, r) ==
    /\ loc' = [loc EXCEPT ![t] = l]
    /\ resp' = [resp EXCEPT ![t] = r]
    /\ pc' = [pc EXCEPT ![t] = "done"]

----------------------------------------------------------------------------
\* POST /synthesize

\* `not text` for text = request.form.get('text', '').
TextMissing_absentOnly(form) == ~Has(form, "text")

TextMissing(form) == IF Has(form, "text") THEN form.text = <<>> ELSE TRUE

\* The two except clauses of synthesize_text, for exception e raised with
\* locals l.
SynExcept(t, l, e) ==
    /\ IF e = "FileNotFoundError"
       THEN Finish(t,
                   [l EXCEPT !.exc = e,
                             !.logged = @ \cup {<<"ERROR", "Service account file not found at: ">>}],
                   Json(500, [error |-> <<"Google Cloud service account file not found. Please check the file path.">>]))
       ELSE Finish(t,
                   [l EXCEPT !.exc = e,
                             !.logged = @ \cup {<<"ERROR", "Text-to-speech error: ", e>>}],
                   Json(500, [error |-> <<"Text-to-speech error: ", e>>]))
    /\ fs' = fs

\* Lines 49-52: read the text field and reject an empty one.
SynValidate(t) ==
    /\ pc[t] = "syn_validate"
    /\ IF TextMissing(req[t].form)
       THEN Finish(t, loc[t], Json(400, [error |-> <<"No text provided">>]))
       ELSE /\ pc' = [pc EXCEPT ![t] = "syn_client"]
            /\ UNCHANGED <<loc, resp>>
    /\ UNCHANGED <<whisper_model, loadCount, fs, uuidCount, req>>

\* Line 56: construct the provider client from the service account file.
SynClient(t) ==
    /\ pc[t] = "syn_client"
    /\ \E outcome \in {"ok", "FileNotFoundError", "Exception"} :
        IF outcome = "ok"
        THEN /\ loc' = [loc EXCEPT ![t].client = TRUE]
             /\ pc' = [pc EXCEPT ![t] = "syn_config"]
             /\ UNCHANGED <<resp, fs>>
        ELSE SynExcept(t, loc[t], outcome)
    /\ UNCHANGED <<whisper_model, loadCount, uuidCount, req>>

\* Lines 59-73: build the synthesis input, the voice and the audio settings;
\* float() of the rate and pitch fields raises ValueError on a non-number.
SynConfig(t) ==
    /\ pc[t] = "syn_config"
    /\ LET form == req[t].form
           rateOk == IF Has(form, "rate") THEN FloatAccepts(form.rate) ELSE TRUE
           pitchOk == IF Has(form, "pitch") THEN FloatAccepts(form.pitch) ELSE TRUE
       IN IF rateOk /\ pitchOk
          THEN /\ pc' = [pc EXCEPT ![t] = "syn_call"]
               /\ UNCHANGED <<loc, resp, fs>>
          ELSE SynExcept(t, loc[t], "ValueError")
    /\ UNCHANGED <<whisper_model, loadCount, uuidCount, req>>

\* Lines 76-78: the provider call, made once; a failure goes to the except clause.
SynCall_retries(t) ==
    /\ pc[t] = "syn_call"
    /\ \E outcome \in {"ok", "Exception"} :
         IF outcome = "ok"
         THEN /\ loc' = [loc EXCEPT ![t].calls = @ + 1]
              /\ pc' = [pc EXCEPT ![t] = "syn_write"]
              /\ UNCHANGED <<resp, fs>>
         ELSE SynExcept(t, [loc[t] EXCEPT !.calls = @ + 2], outcome)
    /\ UNCHANGED <<whisper_model, loadCount, uuidCount, req>>

SynCall(t) ==
    /\ pc[t] = "syn_call"
    /\ LET l == [loc[t] EXCEPT !.calls = @ + 1]
       IN \E outcome \in {"ok", "Exception"} :
            IF outcome = "ok"
            THEN /\ loc' = [loc EXCEPT ![t] = l]
                 /\ pc' = [pc EXCEPT ![t] = "syn_write"]
                 /\ UNCHANGED <<resp, fs>>
            ELSE SynExcept(t, l, outcome)
    /\ UNCHANGED <<whisper_model, loadCount, uuidCount, req>>

\* The path returned to the client (line 89).
SynAudioPath_uploads(filename) ==
    PathJoin(PathJoin(<<"static">>, <<"uploads">>), filename)

SynAudioPath(filename) ==
    PathJoin(PathJoin(<<"static">>, <<"audio">>), filename)

\* Lines 81-89: draw a name, write the audio bytes, return the path.
SynWrite(t) ==
    /\ pc[t] = "syn_write"
    /\ uuidCount' = uuidCount + 1
    /\ LET filename == UuidStr(uuidCount') \o <<".mp3">>
           filepath == PathJoin(AUDIO_FOLDER, filename)
           l == [loc[t] EXCEPT !.filename = filename, !.filepath = filepath]
           lw == [l EXCEPT !.created = @ \cup {filepath}]
       IN IF DirName(filepath) \notin ExistingDirs
          THEN SynExcept(t, l, "FileNotFoundError")
          ELSE \E outcome \in {"ok", "open-OSError", "write-OSError"} :
                 CASE outcome = "ok" ->
                        /\ fs' = fs \cup {filepath}
                        /\ Finish(t, lw, Json(200, [audio_path |-> SynAudioPath(filename)]))
                   [] outcome = "open-OSError" ->
                        SynExcept(t, l, "OSError")
                   [] OTHER ->
                        \* the file exists (truncated) when write() raises
                        /\ SynExcept(t, lw, "OSError")
    /\ UNCHANGED <<whisper_model, loadCount, req>>

SynStep(t) ==
    SynValidate(t) \/ SynClient(t) \/ SynConfig(t) \/ SynCall(t) \/ SynWrite(t)

----------------------------------------------------------------------------
\* get_whisper_model (lines 36-40), entered from both transcribe handlers

\* The except clause of the handler that called get_whisper_model or
\* model.transcribe: JSON in transcribe_speech, the template in transcribe_audio.
TrExcept(t, l, e) ==
    IF req[t].route = "transcribe"
    THEN Finish(t,
                [l EXCEPT !.exc = e, !.logged = @ \cup {<<"ERROR", "Transcription error: ", e>>}],
                Json(500, [error |-> <<e>>]))
    ELSE Finish(t,
                [l EXCEPT !.exc = e, !.logged = @ \cup {<<"ERROR", "Transcription error: ", e>>}],
                Html(200, [has_audio |-> <<"False">>, error |-> <<e>>]))

\* Line 38: read the global and test it.
GmCheck(t) ==
    /\ pc[t] = "gm_check"
    /\ pc' = [pc EXCEPT ![t] = IF whisper_model = None THEN "gm_load" ELSE "gm_return"]
    /\ UNCHANGED <<whisper_model, loadCount, fs, uuidCount, req, loc, resp>>

\* Line 39, right-hand side: whisper.load_model runs (and may raise).
GmLoad(t) ==
    /\ pc[t] = "gm_load"
    /\ loadCount' = loadCount + 1
    /\ \E outcome \in {"ok", "RuntimeError"} :
         IF outcome = "ok"
         THEN /\ loc' = [loc EXCEPT ![t].loaded = loadCount']
              /\ pc' = [pc EXCEPT ![t] = "gm_assign"]
              /\ UNCHANGED resp
         ELSE TrExcept(t, loc[t], outcome)
    /\ UNCHANGED <<whisper_model, fs, uuidCount, req>>

\* Line 39, the store to the global.
GmAssign(t) ==
    /\ pc[t] = "gm_assign"
    /\ whisper_model' = loc[t].loaded
    /\ pc' = [pc EXCEPT ![t] = "gm_return"]
    /\ UNCHANGED <<loadCount, fs, uuidCount, req, loc, resp>>

\* Line 40: return the global's current value to the handler's `model`.
GmReturn(t) ==
    /\ pc[t] = "gm_return"
    /\ loc' = [loc EXCEPT ![t].model = whisper_model]
    /\ pc' = [pc EXCEPT ![t] = IF req[t].route = "transcribe" THEN "tr_infer" ELSE "ta_infer"]
    /\ UNCHANGED <<whisper_model, loadCount, fs, uuidCount, req, resp>>

GmStep(t) == GmCheck(t) \/ GmLoad(t) \/ GmAssign(t) \/ GmReturn(t)

----------------------------------------------------------------------------
\* POST /transcribe

\* Line 102.
NoAudioPart(files) == ~Has(files, "audio")

\* Line 109.
NoSelectedFile_unchecked(files) == FALSE

NoSelectedFile(files) == files.audio = <<>>

\* Lines 102-110.
TrValidate(t) ==
    /\ pc[t] = "tr_validate"
    /\ IF NoAudioPart(req[t].files)
       THEN Finish(t, loc[t], Json(400, [error |-> <<"No audio file provided">>]))
       ELSE IF NoSelectedFile(req[t].files)
       THEN Finish(t, loc[t], Json(400, [error |-> <<"No selected file">>]))
       ELSE /\ pc' = [pc EXCEPT ![t] = "tr_save"]
            /\ UNCHANGED <<loc, resp>>
    /\ UNCHANGED <<whisper_model, loadCount, fs, uuidCount, req>>

\* Lines 113-115: name the upload and save it; this is outside the try, so an
\* exception of file.save leaves the view function.
TrSave_skipsSave(t) ==
    /\ pc[t] = "tr_save"
    /\ uuidCount' = uuidCount + 1
    /\ LET filename == UuidStr(uuidCount') \o <<"_">> \o req[t].files.audio
       IN loc' = [loc EXCEPT ![t].filename = filename,
                             ![t].filepath = PathJoin(UPLOAD_FOLDER, filename)]
    /\ pc' = [pc EXCEPT ![t] = "gm_check"]
    /\ UNCHANGED <<whisper_model, loadCount, fs, req, resp>>

TrSave(t) ==
    /\ pc[t] = "tr_save"
    /\ uuidCount' = uuidCount + 1
    /\ LET filename == UuidStr(uuidCount') \o <<"_">> \o req[t].files.audio
           filepath == PathJoin(UPLOAD_FOLDER, filename)
           l == [loc[t] EXCEPT !.filename = filename, !.filepath = filepath]
           lw == [l EXCEPT !.created = @ \cup {filepath}]
       IN IF DirName(filepath) \notin ExistingDirs
          THEN /\ Finish(t, [l EXCEPT !.exc = "FileNotFoundError"], Uncaught)
               /\ fs' = fs
          ELSE \E outcome \in {"ok", "open-OSError", "write-OSError"} :
                 CASE outcome = "ok" ->
                        /\ fs' = fs \cup {filepath}
                        /\ loc' = [loc EXCEPT ![t] = lw]
                        /\ pc' = [pc EXCEPT ![t] = "gm_check"]
                        /\ UNCHANGED resp
                   [] outcome = "open-OSError" ->
                        /\ Finish(t, [l EXCEPT !.exc = "OSError"], Uncaught)
                        /\ fs' = fs
                   [] OTHER ->
                        \* the file exists (truncated) when the copy raises
                        /\ Finish(t, [lw EXCEPT !.exc = "OSError"], Uncaught)
                        /\ fs' = fs \cup {filepath}
    /\ UNCHANGED <<whisper_model, loadCount, req>>

\* Lines 122-131: inference on the saved file and the JSON answer.
TrInfer(t) ==
    /\ pc[t] = "tr_infer"
    /\ LET l == [loc[t] EXCEPT !.infers = @ + 1]
       IN \E outcome \in {"ok", "RuntimeError"} :
            IF outcome = "ok"
            THEN Finish(t, l,
                        Json(200, [text |-> <<"words">>,
                                   audio_path |-> PathJoin(PathJoin(<<"static">>, <<"uploads">>),
                                                           l.filename)]))
            ELSE TrExcept(t, l, outcome)
    /\ UNCHANGED <<whisper_model, loadCount, fs, uuidCount, req>>

TrStep(t) == TrValidate(t) \/ TrSave(t) \/ TrInfer(t)

----------------------------------------------------------------------------
\* GET /transcribe-audio

\* Lines 153-160: look for the recording next to app.py.
TaExists(t) ==
    /\ pc[t] = "ta_exists"
    /\ IF Recording \notin fs
       THEN Finish(t, [loc[t] EXCEPT !.filepath = Recording],
                   Html(200, [has_audio |-> <<"False">>,
                              error |-> <<"Audio file '">> \o audio_filename
                                        \o <<"' not found. Please place it next to app.py.">>]))
       ELSE /\ loc' = [loc EXCEPT ![t].filepath = Recording]
            /\ pc' = [pc EXCEPT ![t] = "gm_check"]
            /\ UNCHANGED resp
    /\ UNCHANGED <<whisper_model, loadCount, fs, uuidCount, req>>

\* Lines 166-181: inference on the recording and the rendered page.
TaInfer(t) ==
    /\ pc[t] = "ta_infer"
    /\ LET l == [loc[t] EXCEPT !.infers = @ + 1]
       IN \E outcome \in {"ok", "RuntimeError"} :
            IF outcome = "ok"
            THEN Finish(t, l,
                        Html(200, [has_audio |-> <<"True">>,
                                   text |-> <<"words">>,
                                   filename |-> audio_filename,
                                   audio_path |-> <<"/app-files/">> \o audio_filename]))
            ELSE TrExcept(t, l, outcome)
    /\ UNCHANGED <<whisper_model, loadCount, fs, uuidCount, req>>

TaStep(t) == TaExists(t) \/ TaInfer(t)

Next == \E t \in Threads : Start(t) \/ SynStep(t) \/ GmStep(t) \/ TrStep(t) \/ TaStep(t)

Spec == Init /\ [][Next]_vars

----------------------------------------------------------------------------
\* Request classes used by the properties below, written from the request alone

IsSyn(t) == req[t].route = "synthesize"

IsTr(t) == req[t].route = "transcribe"

EmptyText(t) == ~("text" \in DOMAIN req[t].form) \/ req[t].form.text = <<>>

ValidUpload(t) == "audio" \in DOMAIN req[t].files /\ req[t].files.audio # <<>>

ErrorJson(r, status) ==
    r.kind = "json" /\ r.status = status /\ DOMAIN r.body = {"error"}

\* Thread t is inside get_whisper_model or past it.
InOrPastGetModel(t) ==
    \/ pc[t] \in {"gm_check", "gm_load", "gm_assign", "gm_return", "tr_infer"}
    \/ loc[t].model # None
    \/ loc[t].loaded # None
    \/ loc[t].infers > 0

----------------------------------------------------------------------------
\* C1: however the first requests interleave, load_model produces a handle at
\* most once: at most one thread ever holds a handle it loaded itself.
C1_LoadAtMostOnce ==
    Cardinality({t \in Threads : loc[t].loaded # None}) <= 1

\* C2: when a /transcribe request that carries an audio part with a non-empty
\* filename has been answered, it has written exactly one file, and that file
\* is in the upload directory.
C2_UploadWrittenOnce ==
    \A t \in Threads :
        (pc[t] = "done" /\ IsTr(t) /\ ValidUpload(t))
            => /\ Cardinality(loc[t].created) = 1
               /\ loc[t].created \subseteq UploadDir

\* C3: a /synthesize request whose text is absent or empty never constructs
\* the client, never calls the provider, creates no file (every file of the
\* audio directory was created by another request), and is answered with 400
\* and {"error": "No text provided"}.
C3_EmptyTextRejected ==
    \A t \in Threads :
        (IsSyn(t) /\ EmptyText(t))
            => /\ pc[t] \in {"syn_validate", "done"}
               /\ ~loc[t].client
               /\ loc[t].calls = 0
               /\ loc[t].created = {}
               /\ \A p \in AudioDir : \E u \in Threads \ {t} : p \in loc[u].created
               /\ pc[t] = "done" =>
                    resp[t] = [status |-> 400, kind |-> "json",
                               body |-> [error |-> <<"No text provided">>]]

C3_Witness ==
    \E t, u \in Threads :
        /\ IsSyn(t) /\ EmptyText(t) /\ pc[t] = "done" /\ resp[t].status = 400
        /\ IsSyn(u) /\ pc[u] = "done" /\ resp[u].status = 200 /\ AudioDir # {}

\* C4: a /transcribe request without an audio part, or with an audio part
\* whose filename is empty, creates no file, never enters get_whisper_model,
\* never runs inference, and is answered with 400 and the matching message.
C4_BadUploadRejected ==
    \A t \in Threads :
        (IsTr(t) /\ ~ValidUpload(t))
            => /\ pc[t] \in {"tr_validate", "done"}
               /\ loc[t].created = {}
               /\ \A p \in UploadDir : \E u \in Threads \ {t} : p \in loc[u].created
               /\ ~InOrPastGetModel(t)
               /\ pc[t] = "done" =>
                    resp[t] = [status |-> 400, kind |-> "json",
                               body |-> [error |->
                                   IF "audio" \in DOMAIN req[t].files
                                   THEN <<"No selected file">>
                                   ELSE <<"No audio file provided">>]]

C4_Witness ==
    \E t, u \in Threads :
        /\ IsTr(t) /\ ~("audio" \in DOMAIN req[t].files)
        /\ pc[t] = "done" /\ resp[t].status = 400
        /\ IsTr(u) /\ "audio" \in DOMAIN req[u].files /\ req[u].files.audio = <<>>
        /\ pc[u] = "done" /\ resp[u].status = 400

\* C5: a /synthesize request answered with 200 has created exactly one file,
\* static/audio/<id>.mp3 for an id no other request uses, that file exists,
\* and the audio_path of the answer is that same relative path.
C5_OneFilePerSynthesis ==
    \A t \in Threads :
        (pc[t] = "done" /\ IsSyn(t) /\ resp[t].status = 200)
            => \E n \in 1 .. uuidCount :
                 LET path == <<"static", "/", "audio", "/">> \o UuidStr(n) \o <<".mp3">>
                 IN /\ ~EmptyText(t)
                    /\ loc[t].created = {path}
                    /\ path \in AudioDir
                    /\ resp[t] = [status |-> 200, kind |-> "json",
                                  body |-> [audio_path |-> path]]
                    /\ \A u \in Threads \ {t} : path \notin loc[u].created

C5_Witness ==
    \E t, u \in Threads :
        /\ t # u
        /\ pc[t] = "done" /\ IsSyn(t) /\ resp[t].status = 200
        /\ pc[u] = "done" /\ IsSyn(u) /\ resp[u].status = 200

\* C6: every failure inside the /synthesize and /transcribe handlers ends in
\* a JSON answer with the single field error and status 500.
C6_NoUncaughtFailure ==
    \A t \in Threads :
        (pc[t] = "done" /\ (IsSyn(t) \/ IsTr(t)) /\ loc[t].exc # "")
            => ErrorJson(resp[t], 500)

\* C7: a /synthesize request with text whose rate or pitch is not a number,
\* served with a working provider client, is answered with 400 and logs no
\* server error.
C7_MalformedNumberIsClientError ==
    \A t \in Threads :
        (/\ pc[t] = "done" /\ IsSyn(t) /\ ~EmptyText(t) /\ loc[t].client
         /\ \/ "rate" \in DOMAIN req[t].form /\ ~FloatAccepts(req[t].form.rate)
            \/ "pitch" \in DOMAIN req[t].form /\ ~FloatAccepts(req[t].form.pitch))
            => resp[t].status = 400 /\ loc[t].logged = {}

\* C8: whenever a /transcribe request is inside get_whisper_model, holds a
\* handle, or has started inference, the upload it names has been saved by it.
C8_SaveBeforeModel ==
    \A t \in Threads :
        (IsTr(t) /\ InOrPastGetModel(t))
            => /\ loc[t].filepath # <<>>
               /\ loc[t].filepath \in loc[t].created
               /\ loc[t].filepath \in fs

C8_Witness ==
    \E t \in Threads :
        /\ IsTr(t) /\ pc[t] = "done" /\ loc[t].infers = 1
        /\ loc[t].model # None /\ resp[t].status = 200

\* C9: once a call of get_whisper_model has returned a handle to some request,
\* no step changes the global handle.
C9_HandleNeverReassigned ==
    [][(\E t \in Threads : loc[t].model # None) => whisper_model' = whisper_model]_vars

\* C10: a /synthesize request with text whose client construction or provider
\* call fails is answered with 500 and a single error field, has called the
\* provider at most once, and has created no file.
C10_ProviderFailure ==
    \A t \in Threads :
        (/\ pc[t] = "done" /\ IsSyn(t) /\ ~EmptyText(t) /\ loc[t].exc # ""
         /\ loc[t].filename = <<>>
         /\ ~loc[t].client \/ loc[t].calls > 0)
            => /\ ErrorJson(resp[t], 500)
               /\ loc[t].calls <= 1
               /\ loc[t].created = {}
               /\ \A p \in AudioDir : \E u \in Threads \ {t} : p \in loc[u].created

C10_Witness ==
    \E t, u \in Threads :
        /\ pc[t] = "done" /\ IsSyn(t) /\ ~loc[t].client /\ loc[t].exc = "Exception"
        /\ pc[u] = "done" /\ IsSyn(u) /\ loc[u].calls = 1 /\ loc[u].exc = "Exception"
           /\ loc[u].filename = <<>>

====
